---- MODULE Spec2Model ----
(***************************************************************************)
(* Patient Counter (src/src/App.tsx): the current-session state, the       *)
(* handlers that change it, and the session ledger that doFinish merges    *)
(* into.                                                                   *)
(*                                                                         *)
(* Representation.  A date "YYYY-MM-DD" is its day ordinal 1..NumDates     *)
(* (fixed-width, zero-padded strings compare like the ordinals); the empty *)
(* string of a cleared date input is EMPTY.  finishedAt, an ISO-8601 UTC   *)
(* string of fixed width, is the millisecond instant it denotes.  A        *)
(* location is one of the slot labels, or NULL.                            *)
(* Where the code takes a date string apart (the History filters), the     *)
(* ordinal is expanded by dateString into the characters it stands for,    *)
(* CALENDAR giving the day each ordinal denotes.                           *)
(***************************************************************************)
EXTENDS Integers, Sequences, FiniteSets, TLC

\* ---------------------------------------------------------------- bounds
NumDates == 2
NumLocs == 2
MaxTap == 1
MaxTotal == 2
MaxStored == 6
MaxRequests == 2
MaxVersion == 2

\* ------------------------------------------------------ program constants
MIN_COUNT == 0
MAX_COUNT == 99
SLOTS == 5

SESSIONS_KEY == "pc_sessions_v1"
CURRENT_KEY == "pc_current_v1"
LOCATIONS_KEY == "pc_locations_v1"

DEFAULT_LOCATIONS == <<"Dhaka", "Barisal", "Gazipur", "Sirajganj (KYAMCH)", "Clinic A">>

NULL == "null"
EMPTY == 0

\* The calendar day each date ordinal stands for, in ascending order.
CALENDAR ==
    << [y |-> 2023, m |-> 2, d |-> 28],
       [y |-> 2024, m |-> 1, d |-> 31],
       [y |-> 2024, m |-> 2, d |-> 1],
       [y |-> 2025, m |-> 1, d |-> 1] >>

Dates == 1..NumDates
Locations == {DEFAULT_LOCATIONS[i] : i \in 1..NumLocs}
Keys == {"newCount", "oldCount"}

VARIABLES
    sessions,    \* useState<Session[]>: the ledger, a sequence of Session records
    current,     \* useState<CurrentState>
    showFinish,  \* useState(false): the "Close session?" dialog is open; doFinish
                 \* closes it, and the button that opens it is not modelled
    clock,       \* the instant the last localISO() call returned
    log,         \* history: the finishes of the open page that reached setSessions,
                 \* oldest first
    last,        \* history: the last handler that ran and the branch it took
    filter,      \* the History filters: locFilter, yearFilter, monthFilter, from, to
    locations,   \* useState<string[]>: the location slots
    storage,     \* localStorage: the item under each of the three keys
    mode,        \* localStorage: "ok", "full" (setItem throws) or "denied" (every
                 \* access throws)
    app,         \* "closed", "mounted", or "crashed" by an error no one caught
    pending,     \* the save effects of the last commit that have not run yet
    scene,       \* history: how far a kill between the two writes of a finish,
                 \* a restart and a finish of what was restored have got
    caches,      \* CacheStorage: the caches in creation order, each a name and
                 \* its entries (request URL -> stored response)
    sw,          \* the service worker: its lifecycle state, the cache names its
                 \* activation has still to delete and those it has deleted
    reqs,        \* the fetch events dispatched to the worker, each with the
                 \* position of its handler and the response it settled with
    puts,        \* the cache.put calls started and not yet completed
    server       \* the version of the assets the network serves

\* The state of the counting screen, the state of its persistence, and the
\* state none of its handlers touches. A handler says what it does to the
\* screen; what its commit does to the persistence is said where the handler
\* is used: under Spec and SpecTies the save effects run with the handler
\* (saveNow), under SpecPersist they are queued and run one write at a time.
screen == <<sessions, current, showFinish, clock, log>>
persisted == <<locations, storage, mode, app, pending, scene>>
worker == <<caches, sw, reqs, puts, server>>
aside == <<filter, worker>>
outside == <<filter, persisted, worker>>

vars == <<sessions, current, showFinish, clock, log, last, outside>>

\* ---------------------------------------------------------------- helpers
Min2(a, b) == IF a < b THEN a ELSE b
Max2(a, b) == IF a > b THEN a ELSE b

\* clamp without its upper limit.
clamp_noMax(v, min, max) == Max2(min, v)

clamp(v, min, max) == Max2(min, Min2(max, v))

\* String.prototype.localeCompare on two strings of the same fixed-width
\* digit format: negative, zero or positive.
localeCompare(a, b) == IF a < b THEN -1 ELSE IF a > b THEN 1 ELSE 0

\* The comparator with the finishedAt operands the other way round.
compareSessions_oldestFirst(a, b) ==
    IF a.date = b.date
    THEN localeCompare(a.finishedAt, b.finishedAt)
    ELSE localeCompare(b.date, a.date)

\* The comparator handed to Array.prototype.sort in doFinish.
compareSessions(a, b) ==
    IF a.date = b.date
    THEN localeCompare(b.finishedAt, a.finishedAt)
    ELSE localeCompare(b.date, a.date)

\* Array.prototype.sort is stable: an element goes after every element
\* already placed that does not compare greater than it.
RECURSIVE insertSorted(_, _)
insertSorted(x, sorted) ==
    IF sorted = <<>> THEN <<x>>
    ELSE IF compareSessions(Head(sorted), x) > 0
         THEN <<x>> \o sorted
         ELSE <<Head(sorted)>> \o insertSorted(x, Tail(sorted))

RECURSIVE sort(_)
sort(list) ==
    IF list = <<>> THEN <<>>
    ELSE insertSorted(list[Len(list)], sort(SubSeq(list, 1, Len(list) - 1)))

\* prev.findIndex(r => r.date === date && r.location === location); 0 for -1.
findIndex(prev, date, location) ==
    LET hits == {i \in 1..Len(prev) : prev[i].date = date /\ prev[i].location = location}
    IN IF hits = {} THEN 0 ELSE CHOOSE i \in hits : \A j \in hits : i <= j

\* uuidv4(): an identifier no record of the ledger carries.
uuidv4(prev) == Len(prev) + 1

\* The model explores ledgers whose totals add up to at most MaxTotal.
RECURSIVE ledgerTotal(_)
ledgerTotal(list) == IF list = <<>> THEN 0 ELSE Head(list).total + ledgerTotal(Tail(list))

\* new Date().toISOString(): an instant later than the one the last call returned.
localISO == {clock + 1}

total == current.newCount + current.oldCount
\* canStart that forgets the location.
canStart_dateOnly == current.date # EMPTY

canStart == current.date # EMPTY /\ current.location # NULL
counterEnabled == canStart

\* The model explores counter values within MaxTap of either clamp limit.
Near(v) == v <= MIN_COUNT + MaxTap \/ v >= MAX_COUNT - MaxTap

\* ---------------------------------------------------------------- strings
\* A string the code takes apart is a sequence of one-character strings.
DIGITS == <<"0", "1", "2", "3", "4", "5", "6", "7", "8", "9">>

\* The UTF-16 code unit of a character of a date string.
charCode(c) ==
    IF c = "-" THEN 45 ELSE 47 + (CHOOSE i \in 1..10 : DIGITS[i] = c)

\* String(n).padStart(2, "0") for 0 <= n <= 99.
pad2(n) == <<DIGITS[(n \div 10) + 1], DIGITS[(n % 10) + 1]>>

\* The value of a date input, "YYYY-MM-DD", for a date ordinal; "" for EMPTY.
dateString(date) ==
    IF date = EMPTY THEN <<>>
    ELSE LET c == CALENDAR[date]
         IN pad2(c.y \div 100) \o pad2(c.y % 100) \o <<"-">> \o pad2(c.m)
                \o <<"-">> \o pad2(c.d)

\* String.prototype.slice(start, end) with 0 <= start <= end.
slice(str, start, end) == SubSeq(str, start + 1, Min2(end, Len(str)))

\* Number(str) for a string of decimal digits.
RECURSIVE Number(_)
Number(str) ==
    IF str = <<>> THEN 0
    ELSE 10 * Number(SubSeq(str, 1, Len(str) - 1)) + (charCode(str[Len(str)]) - 48)

\* a < b on strings: by code units, a proper prefix being the smaller.
RECURSIVE stringLess(_, _)
stringLess(a, b) ==
    IF b = <<>> THEN FALSE
    ELSE IF a = <<>> THEN TRUE
    ELSE IF charCode(Head(a)) # charCode(Head(b)) THEN charCode(Head(a)) < charCode(Head(b))
    ELSE stringLess(Tail(a), Tail(b))

\* ------------------------------------------------------- History filters
ALL == <<"A", "L", "L">>

NoFilter == [locFilter |-> "ALL", yearFilter |-> ALL, monthFilter |-> 0,
             from |-> EMPTY, to |-> EMPTY]

\* keepSession with the lower limit of the range exclusive.
keepSession_fromExclusive(s, f) ==
    IF f.locFilter # "ALL" /\ s.location # f.locFilter THEN FALSE
    ELSE IF f.yearFilter # ALL /\ slice(dateString(s.date), 0, 4) # f.yearFilter THEN FALSE
    ELSE IF f.monthFilter # 0 /\ Number(slice(dateString(s.date), 5, 7)) # f.monthFilter
         THEN FALSE
    ELSE IF f.from # EMPTY /\ ~stringLess(dateString(f.from), dateString(s.date)) THEN FALSE
    ELSE IF f.to # EMPTY /\ stringLess(dateString(f.to), dateString(s.date)) THEN FALSE
    ELSE TRUE

\* The callback of sessions.filter in the filtered memo.
keepSession(s, f) ==
    IF f.locFilter # "ALL" /\ s.location # f.locFilter THEN FALSE
    ELSE IF f.yearFilter # ALL /\ slice(dateString(s.date), 0, 4) # f.yearFilter THEN FALSE
    ELSE IF f.monthFilter # 0 /\ Number(slice(dateString(s.date), 5, 7)) # f.monthFilter
         THEN FALSE
    ELSE IF f.from # EMPTY /\ stringLess(dateString(s.date), dateString(f.from)) THEN FALSE
    ELSE IF f.to # EMPTY /\ stringLess(dateString(f.to), dateString(s.date)) THEN FALSE
    ELSE TRUE

\* Array.prototype.filter: a new array of the kept elements, in order.
filtered(list, f) == SelectSeq(list, LAMBDA s : keepSession(s, f))

\* The years memo: the options of the year filter.
years(list) == {slice(dateString(list[i].date), 0, 4) : i \in 1..Len(list)}

\* ----------------------------------------------------------- localStorage
\* An item is what getItem finds under a key: nothing (null), a text that
\* JSON.parse throws on, the JSON text of a value that cannot be spread (an
\* object, a number), or the JSON text of the value it carries.
Absent == [kind |-> "absent"]
Malformed == [kind |-> "malformed"]
NotIterable == [kind |-> "object"]
Json(value) == [kind |-> "json", value |-> value]

EmptyStorage == [k \in {SESSIONS_KEY, CURRENT_KEY, LOCATIONS_KEY} |-> Absent]

\* `Clinic ${String.fromCharCode(65 + i)}` for a slot index i of 0..4.
CLINIC == <<"Clinic A", "Clinic B", "Clinic C", "Clinic D", "Clinic E">>
placeholder(i) == CLINIC[i + 1]

\* loadSessions that never reads what is stored.
loadSessions_alwaysEmpty(item, access) == <<>>

\* loadSessions: the catch returns [] when getItem or JSON.parse throws.
loadSessions(item, access) ==
    IF access = "denied" \/ item.kind = "malformed" THEN <<>>
    ELSE IF item.kind = "absent" THEN <<>>
    ELSE item.value

\* The for loop of loadLocations: pushes a placeholder for each missing slot.
pushPlaceholders(arr) ==
    IF Len(arr) >= SLOTS THEN arr
    ELSE arr \o [k \in 1..(SLOTS - Len(arr)) |-> placeholder(Len(arr) + k - 1)]

\* loadLocations without the padding loop.
loadLocations_noPadding(item, access) ==
    IF access = "denied" \/ item.kind = "malformed" \/ item.kind = "object"
    THEN DEFAULT_LOCATIONS
    ELSE LET arr == IF item.kind = "absent" THEN DEFAULT_LOCATIONS ELSE item.value
         IN SubSeq(arr, 1, Min2(SLOTS, Len(arr)))

\* loadLocations: the catch returns DEFAULT_LOCATIONS when getItem, JSON.parse
\* or the spread of the parsed value throws.
loadLocations(item, access) ==
    IF access = "denied" \/ item.kind = "malformed" \/ item.kind = "object"
    THEN DEFAULT_LOCATIONS
    ELSE LET arr == IF item.kind = "absent" THEN DEFAULT_LOCATIONS ELSE item.value
             fixed == pushPlaceholders(arr)
         IN SubSeq(fixed, 1, Min2(SLOTS, Len(fixed)))

\* saveLocations: JSON.stringify(names.slice(0, 5)).
savedLocations(names) == Json(SubSeq(names, 1, Min2(SLOTS, Len(names))))

\* What saveSessions, saveCurrent and saveLocations store for a ledger, a
\* current state and a list of slots. Every value the state holds is a
\* string, a finite integer, a boolean, null, or an array or plain object of
\* these, which JSON.stringify writes and JSON.parse reads back exactly.
snapshot(list, s, names) ==
    [key \in {SESSIONS_KEY, CURRENT_KEY, LOCATIONS_KEY} |->
        IF key = SESSIONS_KEY THEN Json(list)
        ELSE IF key = CURRENT_KEY THEN Json(s)
        ELSE savedLocations(names)]

\* ---------------------------------------------------------- CacheStorage
CACHE == "pcache-v1"
ASSETS == <<"/", "/index.html", "/manifest.json", "/icon-192.png", "/icon-512.png">>
SHELL == "/index.html"

\* No response: what caches.match resolves with when nothing matches.
None == [url |-> "none", version |-> 0, status |-> 0]

NoEntries == [u \in {} |-> None]
names(cs) == {cs[i].name : i \in 1..Len(cs)}

\* caches.open(name): the cache of that name, created empty if there is none.
open(cs, name) ==
    IF name \in names(cs) THEN cs ELSE Append(cs, [name |-> name, entries |-> NoEntries])

\* cache.put(req, res) on the cache called name: replaces the entry of req.
put(cs, name, url, res) ==
    LET o == open(cs, name)
    IN [i \in 1..Len(o) |->
           IF o[i].name = name
           THEN [o[i] EXCEPT !.entries =
                    [u \in (DOMAIN o[i].entries) \cup {url} |->
                        IF u = url THEN res ELSE o[i].entries[u]]]
           ELSE o[i]]

\* caches.delete(name)
delete(cs, name) == SelectSeq(cs, LAMBDA c : c.name # name)

\* caches.match(req): the entry of the first cache, in creation order, that
\* holds one for the request.
match(cs, url) ==
    LET hits == {i \in 1..Len(cs) : url \in DOMAIN cs[i].entries}
    IN IF hits = {} THEN None
       ELSE cs[CHOOSE i \in hits : \A j \in hits : i <= j].entries[url]

\* The entries of the cache called name; none if there is no such cache.
entriesOf(cs, name) ==
    IF name \in names(cs)
    THEN cs[CHOOSE i \in 1..Len(cs) : cs[i].name = name].entries
    ELSE NoEntries

\* No service worker is followed.
NoWorker ==
    /\ caches = <<>>
    /\ sw = [state |-> "parsed", toDelete |-> {}, deleted |-> {}]
    /\ reqs = <<>>
    /\ puts = {}
    /\ server = 1

\* ------------------------------------------------------------------- Init
\* loadSessions() and loadCurrent() at construction.  With nothing stored the
\* ledger is empty and the current state is the default (today's date, no
\* location).  Otherwise loadCurrent() returns what the previous run saved;
\* the restored states taken here are those a run reaches from the default
\* by selecting a location and tapping, without a finish.
DefaultCurrent(today) ==
    [date |-> today, location |-> NULL, newCount |-> 0, oldCount |-> 0, locked |-> FALSE]

RestoredCurrent ==
    {[date |-> d, location |-> l, newCount |-> n, oldCount |-> o, locked |-> TRUE] :
        d \in Dates, l \in Locations,
        n \in {MAX_COUNT - MaxTap}, o \in {0, MAX_COUNT - MaxTap}}

\* loadCurrent: the catch returns the default when getItem or JSON.parse throws.
loadCurrent(item, access, today) ==
    IF access = "denied" \/ item.kind = "malformed" THEN DefaultCurrent(today)
    ELSE IF item.kind = "absent" THEN DefaultCurrent(today)
    ELSE item.value

Init ==
    /\ sessions = <<>>
    /\ current \in {DefaultCurrent(d) : d \in Dates} \cup RestoredCurrent
    /\ showFinish = FALSE
    /\ clock = 0
    /\ log = <<>>
    /\ last = "init"
    /\ filter = NoFilter
    /\ locations = DEFAULT_LOCATIONS
    /\ storage = snapshot(sessions, current, locations)
    /\ mode = "ok"
    /\ app = "mounted"
    /\ pending = <<>>
    /\ scene = "none"
    /\ NoWorker

\* --------------------------------------------------------------- handlers
\* onInc that latches only on a total that was non-zero before the tap.
onInc_lateLatch(key) ==
    /\ IF ~counterEnabled
       THEN /\ UNCHANGED current
            /\ last' = "onInc:disabled"
       ELSE LET val == clamp(current[key] + 1, MIN_COUNT, MAX_COUNT)
            IN /\ Near(val)
               /\ current' = [current EXCEPT
                                ![key] = val,
                                !.locked = current.locked
                                             \/ current.newCount + current.oldCount > 0]
               /\ last' = IF val = current[key] THEN "onInc:clamped" ELSE "onInc"
    /\ UNCHANGED <<sessions, showFinish, clock, log, aside>>

onInc(key) ==
    /\ IF ~counterEnabled
       THEN /\ UNCHANGED current
            /\ last' = "onInc:disabled"
       ELSE LET val == clamp(current[key] + 1, MIN_COUNT, MAX_COUNT)
            IN /\ Near(val)
               /\ current' = [current EXCEPT
                                ![key] = val,
                                !.locked = current.locked \/ val > 0
                                             \/ current.newCount + current.oldCount > 0]
               /\ last' = IF val = current[key] THEN "onInc:clamped" ELSE "onInc"
    /\ UNCHANGED <<sessions, showFinish, clock, log, aside>>

onDec(key) ==
    /\ IF ~counterEnabled
       THEN /\ UNCHANGED current
            /\ last' = "onDec:disabled"
       ELSE LET val == clamp(current[key] - 1, MIN_COUNT, MAX_COUNT)
            IN /\ Near(val)
               /\ current' = [current EXCEPT
                                ![key] = val,
                                !.locked = current.locked
                                             \/ current.newCount + current.oldCount > 0]
               /\ last' = IF val = current[key] THEN "onDec:clamped" ELSE "onDec"
    /\ UNCHANGED <<sessions, showFinish, clock, log, aside>>

\* onReset that recomputes locked from the counters it leaves.
onReset_relatch(key) ==
    /\ IF ~counterEnabled
       THEN /\ UNCHANGED current
            /\ last' = "onReset:disabled"
       ELSE /\ current' = [current EXCEPT
                             ![key] = 0,
                             !.locked = current.newCount + current.oldCount - current[key] > 0]
            /\ last' = "onReset"
    /\ UNCHANGED <<sessions, showFinish, clock, log, aside>>

onReset(key) ==
    /\ IF ~counterEnabled
       THEN /\ UNCHANGED current
            /\ last' = "onReset:disabled"
       ELSE /\ current' = [current EXCEPT ![key] = 0]
            /\ last' = "onReset"
    /\ UNCHANGED <<sessions, showFinish, clock, log, aside>>

\* changeDate without the locked check.
changeDate_unguarded(val) ==
    /\ current' = [current EXCEPT !.date = val]
    /\ last' = "changeDate"
    /\ UNCHANGED <<sessions, showFinish, clock, log, aside>>

changeDate(val) ==
    /\ IF current.locked
       THEN /\ UNCHANGED current
            /\ last' = "changeDate:locked"
       ELSE /\ current' = [current EXCEPT !.date = val]
            /\ last' = "changeDate"
    /\ UNCHANGED <<sessions, showFinish, clock, log, aside>>

changeLocation(val) ==
    /\ IF current.locked
       THEN /\ UNCHANGED current
            /\ last' = "changeLocation:locked"
       ELSE /\ current' = [current EXCEPT !.location = val]
            /\ last' = "changeLocation"
    /\ UNCHANGED <<sessions, showFinish, clock, log, aside>>

\* The updater without its merge branch.
mergeOrAppend_appendOnly(prev, ts) ==
    sort(<<[sessionId |-> uuidv4(prev),
            date |-> current.date,
            location |-> current.location,
            total |-> total,
            finishedAt |-> ts]>> \o prev)

\* The updater whose merge branch overwrites the total instead of adding to it.
mergeOrAppend_overwrite(prev, ts) ==
    LET idx == findIndex(prev, current.date, current.location)
    IN IF idx > 0
       THEN sort([prev EXCEPT ![idx] = [prev[idx] EXCEPT
                                          !.total = total,
                                          !.finishedAt = ts]])
       ELSE sort(<<[sessionId |-> uuidv4(prev),
                    date |-> current.date,
                    location |-> current.location,
                    total |-> total,
                    finishedAt |-> ts]>> \o prev)

\* The updater handed to setSessions, with ts the value of localISO().
mergeOrAppend(prev, ts) ==
    LET idx == findIndex(prev, current.date, current.location)
    IN IF idx > 0
       THEN sort([prev EXCEPT ![idx] = [prev[idx] EXCEPT
                                          !.total = prev[idx].total + total,
                                          !.finishedAt = ts]])
       ELSE sort(<<[sessionId |-> uuidv4(prev),
                    date |-> current.date,
                    location |-> current.location,
                    total |-> total,
                    finishedAt |-> ts]>> \o prev)

\* doFinish that resets the current state before looking at the total.
doFinish_resetAlways ==
    IF total = 0 \/ current.date = EMPTY \/ current.location = NULL
    THEN /\ showFinish' = FALSE
         /\ last' = "doFinish:ignored"
         /\ current' = [current EXCEPT !.newCount = 0, !.oldCount = 0, !.locked = FALSE]
         /\ UNCHANGED <<sessions, clock, log, aside>>
    ELSE /\ ledgerTotal(sessions) + total <= MaxTotal
         /\ \E ts \in localISO :
               /\ clock' = ts
               /\ sessions' = mergeOrAppend(sessions, ts)
               /\ last' = IF findIndex(sessions, current.date, current.location) > 0
                          THEN "doFinish:merge" ELSE "doFinish:append"
         /\ log' = Append(log, [date |-> current.date,
                                location |-> current.location,
                                amount |-> total])
         /\ current' = [current EXCEPT !.newCount = 0, !.oldCount = 0, !.locked = FALSE]
         /\ showFinish' = FALSE
         /\ UNCHANGED aside

\* doFinish that also clears the selected location.
doFinish_clearContext ==
    IF total = 0 \/ current.date = EMPTY \/ current.location = NULL
    THEN /\ showFinish' = FALSE
         /\ last' = "doFinish:ignored"
         /\ UNCHANGED <<sessions, current, clock, log, aside>>
    ELSE /\ ledgerTotal(sessions) + total <= MaxTotal
         /\ \E ts \in localISO :
               /\ clock' = ts
               /\ sessions' = mergeOrAppend(sessions, ts)
               /\ last' = IF findIndex(sessions, current.date, current.location) > 0
                          THEN "doFinish:merge" ELSE "doFinish:append"
         /\ log' = Append(log, [date |-> current.date,
                                location |-> current.location,
                                amount |-> total])
         /\ current' = [current EXCEPT !.location = NULL,
                                        !.newCount = 0, !.oldCount = 0, !.locked = FALSE]
         /\ showFinish' = FALSE
         /\ UNCHANGED aside

\* The "Yes" button of the dialog.  Nothing in the handler looks at showFinish,
\* and the handler is taken to run whatever the state, as its own check of the
\* total provides for.
doFinish ==
    IF total = 0 \/ current.date = EMPTY \/ current.location = NULL
    THEN /\ showFinish' = FALSE
         /\ last' = "doFinish:ignored"
         /\ UNCHANGED <<sessions, current, clock, log, aside>>
    ELSE /\ ledgerTotal(sessions) + total <= MaxTotal
         /\ \E ts \in localISO :
               /\ clock' = ts
               /\ sessions' = mergeOrAppend(sessions, ts)
               /\ last' = IF findIndex(sessions, current.date, current.location) > 0
                          THEN "doFinish:merge" ELSE "doFinish:append"
         /\ log' = Append(log, [date |-> current.date,
                                location |-> current.location,
                                amount |-> total])
         /\ current' = [current EXCEPT !.newCount = 0, !.oldCount = 0, !.locked = FALSE]
         /\ showFinish' = FALSE
         /\ UNCHANGED aside

\* The effects of a finish with the current state saved before the ledger.
effects_currentFirst ==
    IF last' \in {"doFinish:merge", "doFinish:append"} THEN <<CURRENT_KEY, SESSIONS_KEY>>
    ELSE IF last' \in {"onInc", "onInc:clamped", "onDec", "onDec:clamped", "onReset",
                       "changeDate", "changeLocation"}
    THEN <<CURRENT_KEY>>
    ELSE <<>>

\* The effects without the one that saves the ledger.
effects_currentOnly ==
    IF last' \in {"doFinish:merge", "doFinish:append",
                  "onInc", "onInc:clamped", "onDec", "onDec:clamped", "onReset",
                  "changeDate", "changeLocation"}
    THEN <<CURRENT_KEY>>
    ELSE <<>>

\* The keys whose save effect the commit of the step just taken runs, in the
\* order the effects are declared: sessions and current after the setSessions
\* and setCurrent of a finish, current after the setCurrent of a handler that
\* got past its guard, none when the handler returned before any setState.
effects ==
    IF last' \in {"doFinish:merge", "doFinish:append"} THEN <<SESSIONS_KEY, CURRENT_KEY>>
    ELSE IF last' \in {"onInc", "onInc:clamped", "onDec", "onDec:clamped", "onReset",
                       "changeDate", "changeLocation"}
    THEN <<CURRENT_KEY>>
    ELSE <<>>

\* The save effects of the commit run to their end with the handler: each
\* writes the new value of its state under its key.
saveNow ==
    /\ storage' = [key \in DOMAIN storage |->
                      IF \E i \in 1..Len(effects) : effects[i] = key
                      THEN snapshot(sessions', current', locations)[key]
                      ELSE storage[key]]
    /\ UNCHANGED <<locations, mode, app, pending, scene>>

Next ==
    \/ \E key \in Keys : onInc(key) /\ saveNow
    \/ \E key \in Keys : onDec(key) /\ saveNow
    \/ \E key \in Keys : onReset(key) /\ saveNow
    \/ \E val \in Dates \cup {EMPTY} : changeDate(val) /\ saveNow
    \/ \E val \in Locations : changeLocation(val) /\ saveNow
    \/ doFinish /\ saveNow

Spec == Init /\ [][Next]_vars

\* ------------------------------------------- the History dialog (filters)
\* The inputs of the model: month 0 (all), two months of the calendar and one
\* that no ledger date falls in.
MonthChoices == {0, 1, 2, 12}
CalendarDays == 1..Len(CALENDAR)

\* The ledger a previous run left in storage: one finish of total 1 for each
\* (date, location) pair numbered in K, in calendar order, a millisecond apart.
PairCount == Len(CALENDAR) * NumLocs
pairDate(k) == ((k - 1) \div NumLocs) + 1
pairLocation(k) == DEFAULT_LOCATIONS[((k - 1) % NumLocs) + 1]

RECURSIVE ledgerOf(_, _, _)
ledgerOf(K, k, prev) ==
    IF k > PairCount THEN prev
    ELSE ledgerOf(K, k + 1,
                  IF k \in K
                  THEN sort(<<[sessionId |-> uuidv4(prev),
                               date |-> pairDate(k),
                               location |-> pairLocation(k),
                               total |-> 1,
                               finishedAt |-> Len(prev) + 1]>> \o prev)
                  ELSE prev)

\* The empty ledger, and the one that holds every pair of the calendar.
StoredLedgers == {ledgerOf(K, 1, <<>>) : K \in {{}, 1..PairCount}}

InitFilter ==
    /\ sessions \in StoredLedgers
    /\ current = DefaultCurrent(1)
    /\ showFinish = FALSE
    /\ clock = Len(sessions)
    /\ log = <<>>
    /\ last = "init"
    /\ filter = NoFilter
    /\ locations = DEFAULT_LOCATIONS
    /\ storage = snapshot(sessions, current, locations)
    /\ mode = "ok"
    /\ app = "mounted"
    /\ pending = <<>>
    /\ scene = "none"
    /\ NoWorker

setLocFilter(val) ==
    /\ filter' = [filter EXCEPT !.locFilter = val]
    /\ last' = "setLocFilter"
    /\ UNCHANGED <<screen, persisted, worker>>

setYearFilter(val) ==
    /\ filter' = [filter EXCEPT !.yearFilter = val]
    /\ last' = "setYearFilter"
    /\ UNCHANGED <<screen, persisted, worker>>

setMonthFilter(val) ==
    /\ filter' = [filter EXCEPT !.monthFilter = val]
    /\ last' = "setMonthFilter"
    /\ UNCHANGED <<screen, persisted, worker>>

setFrom(val) ==
    /\ filter' = [filter EXCEPT !.from = val]
    /\ last' = "setFrom"
    /\ UNCHANGED <<screen, persisted, worker>>

setTo(val) ==
    /\ filter' = [filter EXCEPT !.to = val]
    /\ last' = "setTo"
    /\ UNCHANGED <<screen, persisted, worker>>

NextFilter ==
    \/ \E val \in {"ALL"} \cup Locations : setLocFilter(val)
    \/ \E val \in {ALL} \cup years(sessions) : setYearFilter(val)
    \/ \E val \in MonthChoices : setMonthFilter(val)
    \/ \E val \in CalendarDays \cup {EMPTY} : setFrom(val)
    \/ \E val \in CalendarDays \cup {EMPTY} : setTo(val)

SpecFilter == InitFilter /\ [][NextFilter]_vars

\* ------------------------------------ loading and saving (localStorage)
\* What an earlier run, an earlier version or the user may have left under the
\* locations key: a list of n labels for n up to MaxStored, besides no item, a
\* text that does not parse and a value that is not a list.
storedList(n) == [i \in 1..n |-> ToString(i)]
StoredLocations ==
    <<Absent, Malformed, NotIterable>> \o [k \in 1..(MaxStored + 1) |-> Json(storedList(k - 1))]
StoredSessions == <<Absent, Malformed, Json(ledgerOf({1}, 1, <<>>))>>
StoredCurrent ==
    <<Absent, Malformed,
      Json([date |-> 1, location |-> DEFAULT_LOCATIONS[1], newCount |-> 1, oldCount |-> 0,
            locked |-> TRUE])>>

\* What the text typed into a slot of the rename dialog may be.
RenameInputs == {"", "Ward"}

\* No page is open: no in-memory state exists.
Closed ==
    /\ sessions = <<>>
    /\ locations = <<>>
    /\ current = DefaultCurrent(EMPTY)
    /\ pending = <<>>
    /\ app = "closed"

InitStore ==
    /\ Closed
    /\ showFinish = FALSE
    /\ clock = 0
    /\ log = <<>>
    /\ last = "init"
    /\ filter = NoFilter
    /\ NoWorker
    /\ scene = "none"
    /\ mode \in {"ok", "full", "denied"}
    /\ \E i \in 1..Len(StoredSessions), j \in 1..Len(StoredCurrent),
          k \in 1..Len(StoredLocations) :
          storage = [key \in {SESSIONS_KEY, CURRENT_KEY, LOCATIONS_KEY} |->
                        IF key = SESSIONS_KEY THEN StoredSessions[i]
                        ELSE IF key = CURRENT_KEY THEN StoredCurrent[j]
                        ELSE StoredLocations[k]]

\* The first render of App: the three useState initial values, then the three
\* save effects queued in the order they are declared.
mount ==
    /\ app = "closed"
    /\ sessions' = loadSessions(storage[SESSIONS_KEY], mode)
    /\ locations' = loadLocations(storage[LOCATIONS_KEY], mode)
    /\ \E today \in Dates : current' = loadCurrent(storage[CURRENT_KEY], mode, today)
    /\ app' = "mounted"
    /\ pending' = <<SESSIONS_KEY, LOCATIONS_KEY, CURRENT_KEY>>
    /\ last' = "mount"
    /\ scene' = IF scene = "torn" THEN "restored" ELSE "none"
    /\ UNCHANGED <<storage, mode, showFinish, clock, log, filter, worker>>

\* What the save function of a key hands to setItem.
saved(key) ==
    IF key = SESSIONS_KEY THEN Json(sessions)
    ELSE IF key = CURRENT_KEY THEN Json(current)
    ELSE savedLocations(locations)

\* One save effect: saveSessions, saveLocations or saveCurrent. None of them
\* catches what setItem throws, so the error leaves the effect and React
\* unmounts the tree, which has no error boundary.
runEffect ==
    /\ app = "mounted"
    /\ pending # <<>>
    /\ IF mode = "ok"
       THEN /\ storage' = [storage EXCEPT ![Head(pending)] = saved(Head(pending))]
            /\ pending' = Tail(pending)
            /\ last' = "save"
            /\ UNCHANGED app
       ELSE /\ app' = "crashed"
            /\ pending' = <<>>
            /\ last' = "save:threw"
            /\ UNCHANGED storage
    /\ UNCHANGED <<sessions, current, locations, mode, scene, showFinish, clock, log, filter,
                    worker>>

\* onChange of slot i (0-based) in the rename dialog.
rename(i, value) ==
    /\ app = "mounted"
    /\ pending = <<>>
    /\ locations' = [locations EXCEPT ![i + 1] =
                        IF value # "" THEN value
                        ELSE IF i + 1 <= Len(DEFAULT_LOCATIONS) THEN DEFAULT_LOCATIONS[i + 1]
                        ELSE placeholder(i)]
    /\ pending' = <<LOCATIONS_KEY>>
    /\ last' = "rename"
    /\ scene' = "none"
    /\ UNCHANGED <<sessions, current, storage, mode, app, showFinish, clock, log, filter, worker>>

\* The page is closed or reloaded: the in-memory state is gone.
reload ==
    /\ app \in {"mounted", "crashed"}
    /\ pending = <<>>
    /\ sessions' = <<>>
    /\ locations' = <<>>
    /\ current' = DefaultCurrent(EMPTY)
    /\ app' = "closed"
    /\ UNCHANGED pending
    /\ last' = "reload"
    /\ log' = <<>>
    /\ scene' = "none"
    /\ UNCHANGED <<storage, mode, showFinish, clock, filter, worker>>

\* The storage quota runs out: from now on setItem throws.
quotaExceeded ==
    /\ mode = "ok"
    /\ mode' = "full"
    /\ last' = "quotaExceeded"
    /\ UNCHANGED <<screen, filter, worker, locations, storage, app, pending, scene>>

NextStore ==
    \/ mount
    \/ runEffect
    \/ \E i \in 0..(SLOTS - 1), value \in RenameInputs : rename(i, value)
    \/ reload
    \/ quotaExceeded

SpecStore == InitStore /\ [][NextStore]_vars

\* ------------------------------------------- the service worker (sw.js)
\* The caches an earlier deployment, or an earlier registration of this one,
\* may have left, in creation order; each holds files of version 0.
ExistingNames == <<"pcache-v0", CACHE, "images">>
Stale(url) == [url |-> url, version |-> 0, status |-> 200]
existing(S) ==
    LET kept == SelectSeq(ExistingNames, LAMBDA n : n \in S)
    IN [i \in 1..Len(kept) |->
           [name |-> kept[i], entries |-> [u \in {SHELL, "/app.js"} |-> Stale(u)]]]

\* The requests the pages make: a file of the manifest and one outside it.
RequestUrls == {SHELL, "/app.js"}
Methods == {"GET", "POST"}

\* What the network answers now for a URL.
Response(url, status) == [url |-> url, version |-> server, status |-> status]

InitWorker ==
    /\ sessions = <<>>
    /\ \E today \in Dates : current = DefaultCurrent(today)
    /\ showFinish = FALSE
    /\ clock = 0
    /\ log = <<>>
    /\ last = "init"
    /\ filter = NoFilter
    /\ locations = DEFAULT_LOCATIONS
    /\ storage = EmptyStorage
    /\ mode = "ok"
    /\ app = "mounted"
    /\ pending = <<>>
    /\ scene = "none"
    /\ \E S \in SUBSET {ExistingNames[i] : i \in 1..Len(ExistingNames)} :
          caches = existing(S)
    /\ sw = [state |-> "parsed", toDelete |-> {}, deleted |-> {}]
    /\ reqs = <<>>
    /\ puts = {}
    /\ server = 1

\* cache.addAll(ASSETS): every file of the manifest stored at once.
RECURSIVE addAll(_, _, _)
addAll(cs, name, k) ==
    IF k > Len(ASSETS) THEN cs
    ELSE addAll(put(cs, name, ASSETS[k], Response(ASSETS[k], 200)), name, k + 1)

\* The install listener: caches.open(CACHE), then addAll, which stores every
\* file or, when one cannot be fetched, none; a failed install discards the
\* worker. skipWaiting lets the installed worker activate at once.
install ==
    /\ sw.state = "parsed"
    /\ \E ok \in BOOLEAN :
          IF ok
          THEN /\ caches' = addAll(open(caches, CACHE), CACHE, 1)
               /\ sw' = [sw EXCEPT !.state = "installed"]
               /\ last' = "install"
          ELSE /\ caches' = open(caches, CACHE)
               /\ sw' = [sw EXCEPT !.state = "redundant"]
               /\ last' = "install:failed"
    /\ UNCHANGED <<screen, filter, persisted, reqs, puts, server>>

\* The activate listener that keeps every cache.
activate_keepAll ==
    /\ sw.state = "installed"
    /\ sw' = [state |-> "activating", toDelete |-> {}, deleted |-> {}]
    /\ last' = "activate"
    /\ UNCHANGED <<screen, filter, persisted, caches, reqs, puts, server>>

\* The activate listener: caches.keys(), then one caches.delete per key that
\* is not CACHE.
activate ==
    /\ sw.state = "installed"
    /\ sw' = [state |-> "activating", toDelete |-> {k \in names(caches) : k # CACHE},
              deleted |-> {}]
    /\ last' = "activate"
    /\ UNCHANGED <<screen, filter, persisted, caches, reqs, puts, server>>

\* One caches.delete(k) of the activate listener completes; Promise.all puts
\* no order on them.
deleteCache(k) ==
    /\ sw.state = "activating"
    /\ k \in sw.toDelete
    /\ caches' = delete(caches, k)
    /\ sw' = [sw EXCEPT !.toDelete = @ \ {k}, !.deleted = @ \cup {k}]
    /\ last' = "delete"
    /\ UNCHANGED <<screen, filter, persisted, reqs, puts, server>>

\* Promise.all has resolved: waitUntil lets the worker become active.
activated ==
    /\ sw.state = "activating"
    /\ sw.toDelete = {}
    /\ sw' = [sw EXCEPT !.state = "activated"]
    /\ last' = "activated"
    /\ UNCHANGED <<screen, filter, persisted, caches, reqs, puts, server>>

\* A new version of the files is deployed on the network.
deploy ==
    /\ server < MaxVersion
    /\ server' = server + 1
    /\ last' = "deploy"
    /\ UNCHANGED <<screen, filter, persisted, caches, sw, reqs, puts>>

\* The fetch listener that calls respondWith whatever the method is.
fetchEvent_anyMethod(method, url) ==
    /\ sw.state = "activated"
    /\ Len(reqs) < MaxRequests
    /\ reqs' = Append(reqs, [method |-> method, url |-> url, pc |-> "matching",
                             source |-> "none", response |-> None,
                             matched |-> FALSE, fetched |-> FALSE])
    /\ last' = "fetch"
    /\ UNCHANGED <<screen, filter, persisted, caches, sw, puts, server>>

\* The fetch listener up to its return: a request that is not a GET is left
\* alone (no respondWith); for a GET, respondWith takes the promise that
\* starts with caches.match(req).
fetchEvent(method, url) ==
    /\ sw.state = "activated"
    /\ Len(reqs) < MaxRequests
    /\ reqs' = Append(reqs, [method |-> method, url |-> url,
                             pc |-> IF method # "GET" THEN "passed" ELSE "matching",
                             source |-> "none", response |-> None,
                             matched |-> FALSE, fetched |-> FALSE])
    /\ last' = IF method # "GET" THEN "fetch:passed" ELSE "fetch"
    /\ UNCHANGED <<screen, filter, persisted, caches, sw, puts, server>>

\* caches.match(req) resolves and the network is asked even on a hit.
matchDone_networkAlways(r) ==
    /\ r \in 1..Len(reqs)
    /\ reqs[r].pc = "matching"
    /\ reqs' = [reqs EXCEPT ![r].matched = TRUE, ![r].pc = "fetching", ![r].fetched = TRUE]
    /\ last' = IF match(caches, reqs[r].url) # None THEN "match:hit" ELSE "match:miss"
    /\ UNCHANGED <<screen, filter, persisted, caches, sw, puts, server>>

\* caches.match(req) resolves: `cached || fetch(req)` settles with the cached
\* response, or calls fetch when there is none.
matchDone(r) ==
    /\ r \in 1..Len(reqs)
    /\ reqs[r].pc = "matching"
    /\ LET cached == match(caches, reqs[r].url)
       IN IF cached # None
          THEN /\ reqs' = [reqs EXCEPT ![r].matched = TRUE, ![r].pc = "responded",
                                       ![r].source = "cache", ![r].response = cached]
               /\ last' = "match:hit"
          ELSE /\ reqs' = [reqs EXCEPT ![r].matched = TRUE, ![r].pc = "fetching",
                                       ![r].fetched = TRUE]
               /\ last' = "match:miss"
    /\ UNCHANGED <<screen, filter, persisted, caches, sw, puts, server>>

\* fetch(req) settles. When it resolves (status 200, or 206 for a partial
\* answer), the callback clones the response, starts caches.open(CACHE) and the
\* put without waiting for them, and returns the response; when it rejects,
\* the catch starts caches.match("/index.html").
fetchDone(r, outcome) ==
    /\ r \in 1..Len(reqs)
    /\ reqs[r].pc = "fetching"
    /\ IF outcome = "failed"
       THEN /\ reqs' = [reqs EXCEPT ![r].pc = "fallback"]
            /\ last' = "network:failed"
            /\ UNCHANGED puts
       ELSE LET res == Response(reqs[r].url, IF outcome = "partial" THEN 206 ELSE 200)
            IN /\ puts' = puts \cup {[url |-> reqs[r].url, copy |-> res]}
               /\ reqs' = [reqs EXCEPT ![r].pc = "responded", ![r].source = "network",
                                       ![r].response = res]
               /\ last' = "network:ok"
    /\ UNCHANGED <<screen, filter, persisted, caches, sw, server>>

\* The catch that answers with nothing.
fallbackDone_nothing(r) ==
    /\ r \in 1..Len(reqs)
    /\ reqs[r].pc = "fallback"
    /\ reqs' = [reqs EXCEPT ![r].pc = "error", ![r].source = "fallback"]
    /\ last' = "fallback"
    /\ UNCHANGED <<screen, filter, persisted, caches, sw, puts, server>>

\* caches.match("/index.html") of the catch resolves: respondWith settles with
\* the shell, or fails with a network error when no cache holds it.
fallbackDone(r) ==
    /\ r \in 1..Len(reqs)
    /\ reqs[r].pc = "fallback"
    /\ LET shell == match(caches, SHELL)
       IN reqs' = [reqs EXCEPT ![r].pc = IF shell = None THEN "error" ELSE "responded",
                               ![r].source = "fallback", ![r].response = shell]
    /\ last' = "fallback"
    /\ UNCHANGED <<screen, filter, persisted, caches, sw, puts, server>>

\* A put started by the fetch callback completes: caches.open(CACHE), then
\* cache.put, which rejects a partial (206) response and stores any other.
putDone(p) ==
    /\ p \in puts
    /\ puts' = puts \ {p}
    /\ IF p.copy.status = 206
       THEN /\ caches' = open(caches, CACHE)
            /\ last' = "put:rejected"
       ELSE /\ caches' = put(caches, CACHE, p.url, p.copy)
            /\ last' = "put"
    /\ UNCHANGED <<screen, filter, persisted, sw, reqs, server>>

NextWorker ==
    \/ install
    \/ activate
    \/ \E k \in names(caches) : deleteCache(k)
    \/ activated
    \/ deploy
    \/ \E method \in Methods, url \in RequestUrls : fetchEvent(method, url)
    \/ \E r \in 1..MaxRequests : matchDone(r)
    \/ \E r \in 1..MaxRequests, outcome \in {"ok", "partial", "failed"} : fetchDone(r, outcome)
    \/ \E r \in 1..MaxRequests : fallbackDone(r)
    \/ \E p \in puts : putDone(p)

SpecWorker == InitWorker /\ [][NextWorker]_vars

\* ------------------------------------- finishing within one millisecond
\* localISO reads the wall clock with a resolution of one millisecond: a
\* finish may get the instant of the finish before it.
localISO_sameOrLater == {clock, clock + 1}

\* doFinish with the instants localISO may return and the cap on the ledger
\* total given: the handler is that of doFinish.
doFinishAt(instants, cap) ==
    IF total = 0 \/ current.date = EMPTY \/ current.location = NULL
    THEN /\ showFinish' = FALSE
         /\ last' = "doFinish:ignored"
         /\ UNCHANGED <<sessions, current, clock, log, aside>>
    ELSE /\ ledgerTotal(sessions) + total <= cap
         /\ \E ts \in instants :
               /\ clock' = ts
               /\ sessions' = mergeOrAppend(sessions, ts)
               /\ last' = IF findIndex(sessions, current.date, current.location) > 0
                          THEN "doFinish:merge" ELSE "doFinish:append"
         /\ log' = Append(log, [date |-> current.date,
                                location |-> current.location,
                                amount |-> total])
         /\ current' = [current EXCEPT !.newCount = 0, !.oldCount = 0, !.locked = FALSE]
         /\ showFinish' = FALSE
         /\ UNCHANGED aside

NextTies ==
    \/ \E key \in Keys : onInc(key) /\ saveNow
    \/ \E key \in Keys : onDec(key) /\ saveNow
    \/ \E key \in Keys : onReset(key) /\ saveNow
    \/ \E value \in Dates \cup {EMPTY} : changeDate(value) /\ saveNow
    \/ \E value \in Locations : changeLocation(value) /\ saveNow
    \/ doFinishAt(localISO_sameOrLater, MaxTotal + 1) /\ saveNow

SpecTies == Init /\ [][NextTies]_vars

\* ------------------- the counting screen with its saves, write by write
\* A first visit: nothing is stored yet.
InitPersist ==
    /\ Closed
    /\ showFinish = FALSE
    /\ clock = 0
    /\ log = <<>>
    /\ last = "init"
    /\ filter = NoFilter
    /\ NoWorker
    /\ scene = "none"
    /\ mode = "ok"
    /\ storage = EmptyStorage

\* A handler may run: the page is up and the effects of the last commit have
\* run (React flushes them before it handles the next event).
ready == app = "mounted" /\ pending = <<>>

\* The commit of a handler queues its save effects. scene follows a finish
\* whose writes are queued, and a finish of the state restored after a kill
\* that fell between those writes.
queue ==
    /\ pending' = effects
    /\ scene' = IF last' \in {"doFinish:merge", "doFinish:append"}
                THEN IF scene = "restored" THEN "recounted" ELSE "finishing"
                ELSE "none"
    /\ UNCHANGED <<locations, storage, mode, app>>

\* The page is killed (tab closed, process or power lost) while save effects
\* are queued: what they had not written yet is lost.
kill ==
    /\ app = "mounted"
    /\ pending # <<>>
    /\ sessions' = <<>>
    /\ locations' = <<>>
    /\ current' = DefaultCurrent(EMPTY)
    /\ app' = "closed"
    /\ pending' = <<>>
    /\ last' = "kill"
    /\ log' = <<>>
    /\ scene' = IF scene = "finishing" /\ pending = <<CURRENT_KEY>> THEN "torn" ELSE "none"
    /\ UNCHANGED <<storage, mode, showFinish, clock, filter, worker>>

\* The page counts at its first location slot and renames its last one. A
\* finish whose writes are lost leaves no trace in the ledger, so the cap on
\* the ledger total does not bound the finishes: the clock is capped.
NextPersist ==
    \/ mount
    \/ runEffect
    \/ reload
    \/ kill
    \/ quotaExceeded
    \/ \E value \in RenameInputs : rename(SLOTS - 1, value)
    \/ \E key \in Keys : ready /\ onInc(key) /\ queue
    \/ \E key \in Keys : ready /\ onDec(key) /\ queue
    \/ \E key \in Keys : ready /\ onReset(key) /\ queue
    \/ \E value \in Dates \cup {EMPTY} : ready /\ changeDate(value) /\ queue
    \/ ready /\ changeLocation(locations[1]) /\ queue
    \/ ready /\ clock < MaxTotal /\ doFinish /\ queue

SpecPersist == InitPersist /\ [][NextPersist]_vars

\* ================================================================ claims
KeyPairs == (Dates \cup {EMPTY}) \X (Locations \cup {NULL})

RecordsOf(d, l) == {i \in 1..Len(sessions) : sessions[i].date = d /\ sessions[i].location = l}

RECURSIVE LogSum(_, _, _)
LogSum(entries, d, l) ==
    IF entries = <<>> THEN 0
    ELSE (IF Head(entries).date = d /\ Head(entries).location = l
          THEN Head(entries).amount ELSE 0) + LogSum(Tail(entries), d, l)

FinishSaved == last \in {"doFinish:append", "doFinish:merge"}

\* C1: the ledger never holds two Session records with the same
\* (date, location) pair.
C1_OneRecordPerKey ==
    \A i, j \in 1..Len(sessions) :
        (sessions[i].date = sessions[j].date /\ sessions[i].location = sessions[j].location)
            => i = j

\* A second finish for a pair that already had a record has just been merged.
C1_Witness ==
    /\ last = "doFinish:merge"
    /\ Len(log) = 2
    /\ Len(sessions) = 1

\* C2: for every (date, location) pair the ledger holds no record when no
\* finish with a non-zero total was executed for it, and otherwise exactly one
\* record whose total is the sum of the totals of those finishes; and no step
\* removes a record or lowers its total.
C2_TotalsAreLogSums ==
    \A k \in KeyPairs :
        LET sum == LogSum(log, k[1], k[2])
        IN /\ Cardinality(RecordsOf(k[1], k[2])) = (IF sum = 0 THEN 0 ELSE 1)
           /\ \A i \in RecordsOf(k[1], k[2]) : sessions[i].total = sum

C2_TotalNeverDecreases ==
    \A i \in 1..Len(sessions) :
        \E j \in 1..Len(sessions') :
            /\ sessions'[j].sessionId = sessions[i].sessionId
            /\ sessions'[j].total >= sessions[i].total

C2_MergeAccumulates == []C2_TotalsAreLogSums /\ [][C2_TotalNeverDecreases]_vars

\* Two finishes of the same pair left one record holding both amounts.
C2_Witness ==
    /\ last = "doFinish:merge"
    /\ Len(log) = 2
    /\ log[1].date = log[2].date /\ log[1].location = log[2].location
    /\ Len(sessions) = 1
    /\ sessions[1].total = log[1].amount + log[2].amount
    /\ sessions[1].total > log[2].amount

C4_InRange ==
    \A key \in Keys : MIN_COUNT <= current[key] /\ current[key] <= MAX_COUNT

C4_Saturates ==
    \A key \in Keys :
        /\ (counterEnabled /\ current[key] = MAX_COUNT /\ onInc(key))
              => current'[key] = MAX_COUNT
        /\ (counterEnabled /\ current[key] = MIN_COUNT /\ onDec(key))
              => current'[key] = MIN_COUNT

C4_CountersClamped == []C4_InRange /\ [][C4_Saturates]_vars

\* An increment has just been absorbed by a counter standing at 99.
C4_Witness ==
    /\ last = "onInc:clamped"
    /\ \E key \in Keys : current[key] = MAX_COUNT

\* C5: a non-zero combined total implies locked.
C5_NonZeroImpliesLocked == total > 0 => current.locked

\* The first tap of a session: the total is 1 and the lock is set.
C5_Witness ==
    /\ last = "onInc"
    /\ total = 1
    /\ current.locked
    /\ log = <<>>

\* C6: a step that takes locked from true to false is a finish that saved
\* to the ledger.
C6_UnlockStep ==
    (current.locked /\ ~current'.locked)
        => (doFinish /\ total > 0 /\ last' \in {"doFinish:append", "doFinish:merge"})

C6_OnlyFinishUnlocks == [][C6_UnlockStep]_vars

\* The counters were brought back to 0 by a reset and the lock is still set.
C6_Witness ==
    /\ last = "onReset"
    /\ total = 0
    /\ current.locked

\* C7: while locked no step changes date or location, and setDate and
\* setLocation leave the whole current state alone; while unlocked each
\* overwrites its own field and nothing else of the current state.
C7_SelectStep ==
    /\ current.locked => (current'.date = current.date /\ current'.location = current.location)
    /\ last' \in {"changeDate", "changeDate:locked"} =>
          \A val \in Dates \cup {EMPTY} :
              changeDate(val) =>
                  current' = IF current.locked THEN current ELSE [current EXCEPT !.date = val]
    /\ last' \in {"changeLocation", "changeLocation:locked"} =>
          \A val \in Locations :
              changeLocation(val) =>
                  current' = IF current.locked THEN current
                             ELSE [current EXCEPT !.location = val]

C7_SelectionFrozenWhileLocked == [][C7_SelectStep]_vars

\* A date change has just been refused because the session is locked.
C7_Witness ==
    /\ last = "changeDate:locked"
    /\ current.locked

\* C8: a finish at total 0 changes neither the ledger nor the current state.
C8_ZeroFinishStep ==
    (total = 0 /\ doFinish) => (UNCHANGED <<sessions, current, clock, log>>)

C8_ZeroFinishIsNoOp == [][C8_ZeroFinishStep]_vars

\* A finish has just been ignored at total 0 with the lock set.
C8_Witness ==
    /\ last = "doFinish:ignored"
    /\ total = 0
    /\ current.locked

\* C9: a finish with a non-zero total and date and location selected zeroes
\* both counters and clears locked, keeping date and location.
C9_FinishStep ==
    (/\ total > 0 /\ current.date # EMPTY /\ current.location # NULL
     /\ last' \in {"doFinish:append", "doFinish:merge", "doFinish:ignored"})
        => /\ last' # "doFinish:ignored"
           /\ current' = [current EXCEPT !.newCount = 0, !.oldCount = 0, !.locked = FALSE]

C9_FinishResetsCounters == [][C9_FinishStep]_vars

\* A finish has just saved: counters 0, unlocked, the slot still selected.
C9_Witness ==
    /\ FinishSaved
    /\ total = 0
    /\ ~current.locked
    /\ current.date = log[Len(log)].date
    /\ current.location = log[Len(log)].location

\* C10: without both a date and a location, increment, decrement and
\* resetCounter leave the current state alone; so non-zero counters or a set
\* lock imply that both are selected.
C10_Selected == (total > 0 \/ current.locked) => (current.date # EMPTY /\ current.location # NULL)

C10_DisabledStep ==
    (current.date = EMPTY \/ current.location = NULL)
        => \A key \in Keys : (onInc(key) \/ onDec(key) \/ onReset(key)) => UNCHANGED current

C10_CountingNeedsSelection == []C10_Selected /\ [][C10_DisabledStep]_vars

\* An increment has just been refused because no location is selected.
C10_Witness ==
    /\ last = "onInc:disabled"
    /\ current.location = NULL
    /\ total = 0
\* C11: the history query returns exactly the ledger records that pass every
\* active filter (location equal, year equal, month equal, from <= date,
\* date <= to; ALL, 0 and the empty date pass everything), in ledger order; with
\* no filter active it returns the whole ledger; and no filter change touches
\* the ledger.
YEAR_TEXT == [y \in {2023, 2024, 2025} |->
                CASE y = 2023 -> <<"2", "0", "2", "3">>
                  [] y = 2024 -> <<"2", "0", "2", "4">>
                  [] y = 2025 -> <<"2", "0", "2", "5">>]

PassesFilters(s, f) ==
    /\ f.locFilter = "ALL" \/ s.location = f.locFilter
    /\ f.yearFilter = ALL \/ YEAR_TEXT[CALENDAR[s.date].y] = f.yearFilter
    /\ f.monthFilter = 0 \/ CALENDAR[s.date].m = f.monthFilter
    /\ f.from = EMPTY \/ f.from <= s.date
    /\ f.to = EMPTY \/ s.date <= f.to

PositionOf(r) == CHOOSE i \in 1..Len(sessions) : sessions[i] = r

C11_QueryResult ==
    LET result == filtered(sessions, filter)
        passing == {i \in 1..Len(sessions) : PassesFilters(sessions[i], filter)}
    IN /\ Len(result) = Cardinality(passing)
       /\ \A j \in 1..Len(result) : \E i \in passing : result[j] = sessions[i]
       /\ \A j \in 1..(Len(result) - 1) : PositionOf(result[j]) < PositionOf(result[j + 1])
       /\ filter = NoFilter => result = sessions

C11_FilterIsConjunction == []C11_QueryResult /\ [][UNCHANGED sessions]_vars

\* A location filter and a year filter are both active, and the query keeps
\* some records of the ledger and drops others for each of the two reasons.
C11_Witness ==
    /\ filter.locFilter # "ALL"
    /\ filter.yearFilter # ALL
    /\ filtered(sessions, filter) # <<>>
    /\ \E i \in 1..Len(sessions) :
          sessions[i].location = filter.locFilter /\ ~keepSession(sessions[i], filter)
    /\ \E i \in 1..Len(sessions) :
          sessions[i].location # filter.locFilter
              /\ YEAR_TEXT[CALENDAR[sessions[i].date].y] = filter.yearFilter
    /\ last \in {"setLocFilter", "setYearFilter"}

\* What the first render holds as locations, by what is stored (C12).
C12_Loaded ==
    last = "mount" =>
        LET item == storage[LOCATIONS_KEY]
        IN IF mode # "denied" /\ item.kind = "json"
           THEN /\ \A i \in 1..SLOTS :
                      i <= Len(item.value) => locations[i] = item.value[i]
                /\ \A i \in 1..SLOTS :
                      i > Len(item.value) => locations[i] = CLINIC[i]
           ELSE locations = DEFAULT_LOCATIONS

\* C12. Loading the locations record always yields exactly 5 labels: a stored
\* list of n < 5 entries comes back as those n entries in order followed by
\* the placeholder labels of slots n..4, a longer list is cut to its first 5,
\* an absent or unreadable record yields the 5 defaults; and every rename
\* keeps the list at length 5.
C12_ExactlyFiveLabels ==
    /\ app = "mounted" => Len(locations) = SLOTS
    /\ C12_Loaded

\* A list of three stored labels was padded with "Clinic D" and "Clinic E",
\* and its first slot has been renamed since.
C12_Witness ==
    /\ last = "rename"
    /\ locations = <<"Ward", "2", "3", "Clinic D", "Clinic E">>

\* The key is absent, its text is malformed, or storage access fails.
Defaulted(item) == mode = "denied" \/ item.kind \in {"absent", "malformed"}

\* The stored list cut or padded to the 5 slots.
fitted(list) == [i \in 1..SLOTS |-> IF i <= Len(list) THEN list[i] ELSE CLINIC[i]]

\* C13 as stated: each load returns the parsed stored value, or its default
\* when the key is absent, the text is malformed or storage access fails.
C13_ParsedOrDefault ==
    last = "mount" =>
        /\ app = "mounted"
        /\ sessions = IF Defaulted(storage[SESSIONS_KEY]) THEN <<>>
                      ELSE storage[SESSIONS_KEY].value
        /\ IF Defaulted(storage[CURRENT_KEY])
           THEN \E today \in Dates : current = DefaultCurrent(today)
           ELSE current = storage[CURRENT_KEY].value
        /\ Defaulted(storage[LOCATIONS_KEY]) => locations = DEFAULT_LOCATIONS
        /\ (~Defaulted(storage[LOCATIONS_KEY]) /\ storage[LOCATIONS_KEY].kind = "json")
              => locations = storage[LOCATIONS_KEY].value

\* C13, amended. loadSessions and loadCurrent return the parsed stored value
\* and loadLocations returns the parsed list fitted to 5 labels; each returns
\* its default when the key is absent, the text is malformed or storage access
\* fails, loadLocations also when the parsed value cannot be spread; no load
\* throws, so the first render always completes.
C13_LoadedOrDefault ==
    last = "mount" =>
        /\ app = "mounted"
        /\ sessions = IF Defaulted(storage[SESSIONS_KEY]) THEN <<>>
                      ELSE storage[SESSIONS_KEY].value
        /\ IF Defaulted(storage[CURRENT_KEY])
           THEN \E today \in Dates : current = DefaultCurrent(today)
           ELSE current = storage[CURRENT_KEY].value
        /\ locations = IF Defaulted(storage[LOCATIONS_KEY])
                          \/ storage[LOCATIONS_KEY].kind = "object"
                       THEN DEFAULT_LOCATIONS
                       ELSE fitted(storage[LOCATIONS_KEY].value)

\* A first render that found a ledger text that does not parse, a stored
\* current state and a stored list of three labels.
C13_Witness ==
    /\ last = "mount"
    /\ mode # "denied"
    /\ storage[SESSIONS_KEY].kind = "malformed"
    /\ storage[CURRENT_KEY].kind = "json"
    /\ current.locked
    /\ storage[LOCATIONS_KEY].kind = "json"
    /\ Len(storage[LOCATIONS_KEY].value) = 3
    /\ sessions = <<>>

\* C14 as stated: a save whose storage write fails is silently ignored: no
\* error leaves the save and the page goes on with its in-memory state.
C14_FailedWriteIgnored ==
    last = "save:threw" => app = "mounted"

\* C15. Once the activate step has completed, every cache whose name differs
\* from CACHE has been deleted, and the cache called CACHE is still there
\* with the entries it had: no step of the activation touches it.
C15_OnlyCurrentLeft ==
    sw.state = "activated" => names(caches) = {CACHE}

C15_CurrentUntouched ==
    sw.state \in {"installed", "activating"} =>
        entriesOf(caches, CACHE)' = entriesOf(caches, CACHE)

C15_ActivatePurgesOthers ==
    []C15_OnlyCurrentLeft /\ [][C15_CurrentUntouched]_vars

\* The activation has just completed: it deleted two caches and kept the one
\* called CACHE, which still holds a file stored before the worker installed.
C15_Witness ==
    /\ last = "activated"
    /\ sw.deleted = {"pcache-v0", "images"}
    /\ names(caches) = {CACHE}
    /\ match(caches, "/app.js") = Stale("/app.js")

\* C16 as stated: a GET that missed the cache and was answered by the network
\* has its copy stored before the response is handed back, so from the
\* response on every lookup of the same request is a hit in the cache CACHE.
C16_StoredBeforeResponse ==
    \A r \in 1..Len(reqs) :
        reqs[r].source = "network" => reqs[r].url \in DOMAIN entriesOf(caches, CACHE)

\* The handler of a GET whose lookup hits: it settles with the entry found,
\* without a fetch, and writes nothing.
C17_HitStep ==
    \A r \in 1..Len(reqs) :
        (reqs[r].pc = "matching" /\ match(caches, reqs[r].url) # None
            /\ reqs'[r] # reqs[r]) =>
            /\ reqs'[r].pc = "responded"
            /\ reqs'[r].response = match(caches, reqs[r].url)
            /\ ~reqs'[r].fetched
            /\ caches' = caches
            /\ puts' = puts

C17_ServedFromCache ==
    \A r \in 1..Len(reqs) :
        reqs[r].source = "cache" =>
            /\ reqs[r].pc = "responded"
            /\ reqs[r].response.url = reqs[r].url
            /\ ~reqs[r].fetched

\* C17. For every intercepted GET whose asset is in the cache, the response
\* is the cached copy, no network fetch is attempted, and the caches are left
\* unchanged.
C17_CacheFirst ==
    []C17_ServedFromCache /\ [][C17_HitStep]_vars

\* A request answered from the cache with a copy older than what the network
\* serves by then.
C17_Witness ==
    \E r \in 1..Len(reqs) :
        /\ reqs[r].source = "cache"
        /\ reqs[r].url = "/app.js"
        /\ reqs[r].response.version < server
        /\ last = "match:hit"

\* The handler of a GET whose fetch rejects: the rejection and the fallback
\* lookup write nothing, and the fallback settles with the cached shell.
C18_FailStep ==
    \A r \in 1..Len(reqs) :
        /\ (reqs[r].pc = "fetching" /\ reqs'[r].pc = "fallback") =>
              (caches' = caches /\ puts' = puts)
        /\ (reqs[r].pc = "fallback" /\ reqs'[r] # reqs[r]) =>
              /\ reqs'[r].response = match(caches, SHELL)
              /\ caches' = caches
              /\ puts' = puts

C18_ShellServed ==
    \A r \in 1..Len(reqs) :
        /\ reqs[r].pc # "error"
        /\ reqs[r].source = "fallback" =>
              /\ reqs[r].pc = "responded"
              /\ reqs[r].response.url = SHELL
              /\ reqs[r].response.status = 200

\* C18. For every intercepted GET whose asset is not in the cache and whose
\* network fetch fails, the response is the cached shell /index.html: the
\* request is not left with an error or without a response, and nothing is
\* written to the cache.
C18_OfflineFallback ==
    []C18_ShellServed /\ [][C18_FailStep]_vars

\* A request for a file outside the manifest was answered with the shell.
C18_Witness ==
    \E r \in 1..Len(reqs) :
        /\ reqs[r].source = "fallback"
        /\ reqs[r].url = "/app.js"
        /\ reqs[r].response.url = SHELL
        /\ last = "fallback"

\* The arrival of a request that is not a GET changes no cache and starts no
\* put.
C19_PassStep ==
    (Len(reqs') > Len(reqs) /\ reqs'[Len(reqs')].method # "GET") =>
        (caches' = caches /\ puts' = puts)

C19_NotIntercepted ==
    \A r \in 1..Len(reqs) :
        reqs[r].method # "GET" =>
            /\ reqs[r].pc = "passed"
            /\ reqs[r].response = None
            /\ ~reqs[r].matched
            /\ ~reqs[r].fetched

\* C19. A request with any method other than GET is never intercepted: the
\* handler issues no response for it, does no cache lookup and no network
\* fetch of its own, and leaves every cache unchanged.
C19_NonGetPassesThrough ==
    []C19_NotIntercepted /\ [][C19_PassStep]_vars

\* A POST has arrived and was left to the browser.
C19_Witness ==
    /\ last = "fetch:passed"
    /\ reqs[Len(reqs)].method = "POST"
    /\ reqs[Len(reqs)].pc = "passed"

\* C20 as stated: after a finish that appended or merged the record of (d, l),
\* that record comes before every other record of date d, also when another
\* record of date d carries the same finishedAt.
C20_TouchedRecordFirst ==
    last \in {"doFinish:merge", "doFinish:append"} =>
        LET d == log[Len(log)].date
            i == findIndex(sessions, d, log[Len(log)].location)
        IN \A j \in 1..Len(sessions) :
              (j # i /\ sessions[j].date = d) => i < j

\* C21. When the page is up and the save effects of the last commit have all
\* run, the values stored under the sessions, current and locations keys are
\* the serialised in-memory ledger, current state and location slots, and
\* loading them, as a reload on any day does, gives back the same three records.
C21_StoredIsState ==
    (app = "mounted" /\ pending = <<>>) =>
        /\ storage = snapshot(sessions, current, locations)
        /\ loadSessions(storage[SESSIONS_KEY], mode) = sessions
        /\ loadLocations(storage[LOCATIONS_KEY], mode) = locations
        /\ \A today \in Dates : loadCurrent(storage[CURRENT_KEY], mode, today) = current

\* After a finish, a rename and a tap, the last save effect has run.
C21_Witness ==
    /\ app = "mounted"
    /\ pending = <<>>
    /\ last = "save"
    /\ sessions # <<>>
    /\ locations[SLOTS] = "Ward"
    /\ current.locked
    /\ current.newCount > 0

\* The stored current state still holds locked, non-zero counters, and the
\* stored ledger has a record of its date and location whose total is at
\* least their sum.
storedTwice ==
    /\ storage[CURRENT_KEY].kind = "json"
    /\ storage[SESSIONS_KEY].kind = "json"
    /\ LET s == storage[CURRENT_KEY].value
           list == storage[SESSIONS_KEY].value
           idx == findIndex(list, s.date, s.location)
       IN /\ s.locked
          /\ s.newCount + s.oldCount > 0
          /\ idx > 0
          /\ list[idx].total >= s.newCount + s.oldCount

\* Between the two writes of a finish the ledger write is the one that has
\* run: the stored ledger holds the finished amount, the stored current state
\* does not know of the finish. A kill at that point and the next visit leave
\* the stored values as they are.
C22_TornBetweenWrites ==
    /\ (app = "mounted" /\ scene = "finishing" /\ Len(pending) = 1) =>
          /\ pending = <<CURRENT_KEY>>
          /\ storage[SESSIONS_KEY] = Json(sessions)
          /\ storedTwice
          /\ storage[CURRENT_KEY].value.date = log[Len(log)].date
          /\ storage[CURRENT_KEY].value.location = log[Len(log)].location
          /\ storage[CURRENT_KEY].value.newCount + storage[CURRENT_KEY].value.oldCount
                = log[Len(log)].amount
    /\ scene \in {"torn", "restored"} => storedTwice
    /\ (app = "mounted" /\ scene = "restored") =>
          /\ current = storage[CURRENT_KEY].value
          /\ sessions = storage[SESSIONS_KEY].value

\* The finish of the restored state, before its writes: the record of the
\* same date and location has grown by the amount the stored ledger already
\* held.
C22_SecondCount ==
    (scene = "recounted" /\ pending = <<SESSIONS_KEY, CURRENT_KEY>>) =>
        /\ storedTwice
        /\ LET s == storage[CURRENT_KEY].value
               list == storage[SESSIONS_KEY].value
               amount == s.newCount + s.oldCount
               idx == findIndex(list, s.date, s.location)
               now == findIndex(sessions, s.date, s.location)
           IN /\ log = <<[date |-> s.date, location |-> s.location, amount |-> amount]>>
              /\ now > 0
              /\ sessions[now].sessionId = list[idx].sessionId
              /\ sessions[now].total = list[idx].total + amount
              /\ sessions[now].total >= 2 * amount

\* C22. The two writes of a finish are not atomic: the ledger write runs
\* first, a kill of the page before the current-state write leaves the
\* finished amount in the stored ledger and the same locked, non-zero counters
\* in the stored current state, and a finish after the next visit adds that
\* amount to the same record a second time.
C22_CountedTwice == C22_TornBetweenWrites /\ C22_SecondCount

\* One patient was finished, the page was killed between the two writes,
\* reopened and finished again: the record counts two.
C22_Witness ==
    /\ scene = "recounted"
    /\ last = "doFinish:merge"
    /\ Len(sessions) = 1
    /\ log[1].amount = 1
    /\ sessions[1].total = 2
    /\ storage[SESSIONS_KEY] = Json(<<[sessions[1] EXCEPT !.total = 1, !.finishedAt = 1]>>)

====
